---- MODULE Spec2Model ----
(***************************************************************************)
(* A model of opa_client/opa.py: the OpaClient constructor and its public  *)
(* operations, each translated from its code.                              *)
(*                                                                         *)
(* Representation.                                                         *)
(*  - A string the code only concatenates or tests by prefix is a sequence *)
(*    of tokens: the host " https://h" is <<" ", "https://", "h">>, the    *)
(*    root URL "http://h:8181/v1" is <<"http://","h",":","8181","/","v1">>.*)
(*  - An optional Python value is a sequence of length at most one:        *)
(*    <<>> is None, <<v>> is v.                                            *)
(*  - A response body is the sequence of JSON documents it holds: <<>> is  *)
(*    the empty body (zero bytes), <<doc>> a body holding the object doc.  *)
(*    A JSON object is a record whose DOMAIN is its set of keys.           *)
(*  - The service and the network are inputs: every request of a call is   *)
(*    answered by an exchange [fails, status, data]: the number of         *)
(*    consecutive attempts the transport fails before the service answers, *)
(*    and the answer.                                                      *)
(***************************************************************************)
EXTENDS Integers, Sequences, FiniteSets, TLC

VARIABLES client, call

vars == <<client, call>>

(* ------------------------------ bounds --------------------------------- *)

\* longest package path of a generated AST
MaxPath == 2
\* longest rule list of a generated AST
MaxRules == 2
\* longest policy listing
MaxListing == 2
\* most consecutive transport failures inflicted on one request
MaxFail == 3

(* ------------------------- program constants --------------------------- *)

\* retries=2 of every secure-mode session call
Retries == 2

(* --------------------------- Python values ----------------------------- *)

None == <<>>

Some(v) == <<v>>

PyTrue == [bool |-> TRUE]

PyFalse == [bool |-> FALSE]

PyNone == [none |-> TRUE]

Return(v) == [kind |-> "return", value |-> v]

Raise(e, a, b) == [kind |-> "raise", error |-> e, args |-> <<a, b>>]

\* the result of a handler: the requests it issued, in order, and what the
\* caller gets
Result(reqs, out) == [requests |-> reqs, outcome |-> out]

SeqsUpTo(S, n) == UNION {[1..k -> S] : k \in 0..n}

(* ------------------------------ __init__ -------------------------------- *)

Whitespace == {" ", "\t"}

RECURSIVE lstrip(_)
lstrip(s) == IF s # <<>> /\ Head(s) \in Whitespace THEN lstrip(Tail(s)) ELSE s

startswith(s, prefix) == s # <<>> /\ Head(s) = prefix

\* `not cert`: None or the empty string
Falsy(opt) == opt = None \/ opt = Some("")

NoClient == [alive |-> FALSE, secure |-> FALSE, root_url |-> <<>>,
             session |-> "none"]

NewClient(secure, root_url) ==
    [alive |-> TRUE, secure |-> secure, root_url |-> root_url,
     session |-> IF secure THEN "urllib3.PoolManager.request"
                 ELSE "requests.Session"]

\* "{}{}:{}/{}".format(self.__schema, self.__host, self.__port, self.__version)
RootUrlWithSchema(schema, host, port, version) ==
    <<schema>> \o host \o <<":", port, "/", version>>

\* "{}:{}/{}".format(self.__host, self.__port, self.__version)
RootUrlVerbatim(host, port, version) == host \o <<":", port, "/", version>>

\* OpaClient.__init__: [outcome, self]; self is meaningful on return only
__init__(host0, port, version, ssl, cert) ==
    LET host   == lstrip(host0)
        secure == ssl
        schema == IF ssl THEN "https://" ELSE "http://"
    IN  IF Falsy(cert) /\ ssl
        THEN [outcome |-> Raise("SSLError", Some("ssl=True"),
                                Some("Make sure you  provide cert file")),
              self |-> NoClient]
        ELSE IF startswith(host, "https://")
        THEN [outcome |-> Return(PyNone),
              self |-> NewClient(secure, RootUrlVerbatim(host, port, version))]
        ELSE IF startswith(host, "http://")
        THEN IF secure
             THEN [outcome |-> Raise("SSLError", Some("ssl=True"),
                     Some("With ssl enabled not possible to have connection with http")),
                   self |-> NoClient]
             ELSE [outcome |-> Return(PyNone),
                   self |-> NewClient(secure,
                                      RootUrlVerbatim(host, port, version))]
        ELSE [outcome |-> Return(PyNone),
              self |-> NewClient(secure,
                         RootUrlWithSchema(schema, host, port, version))]

(* ------------------------------ transport ------------------------------- *)

AttemptLimitRetryAll(self) == Retries + 1

\* attempts a session call makes at most: requests.Session makes one, the
\* urllib3 pool manager one plus `retries`
AttemptLimit(self) == IF self.secure THEN Retries + 1 ELSE 1

\* one session call answered by exchange x: the request as issued and whether
\* an answer came back
Send(self, method, url, payload, x) ==
    LET limit == AttemptLimit(self)
        ok    == x.fails < limit
    IN  [method   |-> method,
         url      |-> url,
         payload  |-> payload,
         attempts |-> IF ok THEN x.fails + 1 ELSE limit,
         answered |-> ok]

\* the exception of a session call that got no answer
TransportError(self) ==
    IF self.secure THEN Raise("MaxRetryError", None, None)
    ELSE Raise("requests.ConnectionError", None, None)

NoPayload == [none |-> TRUE]

\* json=new_data and body=json.dumps(new_data).encode("utf-8")
JsonPayload(v) == [json |-> v]

\* data=new_policy.encode() and body=new_policy.encode()
BytesPayload(s) == [bytes |-> s]

\* requests.get(url, ...): the module-level call, one attempt in either mode
PlainGet(url, x) ==
    [method |-> "GET", url |-> url, payload |-> NoPayload,
     attempts |-> 1, answered |-> x.fails < 1]

\* "{}/policies/{}".format(self.__root_url, name)
policy_root(root_url, name) == root_url \o <<"/policies/", name>>

\* "{}/data/{}".format(self.__root_url, name)
data_root(root_url, name) == root_url \o <<"/data/", name>>

\* json.loads(response.data.decode(...)) and response.json(): fail on an
\* empty body
Decodes(x) == x.data # <<>>

json_loads(x) == x.data[1]

JSONDecodeError == Raise("JSONDecodeError", None, None)

\* d.get(key) for a key whose value is a string
get_str(d, key) == IF key \in DOMAIN d THEN Some(d[key]) ELSE None

PyJson(doc) == [json |-> doc]

PyStr(s) == [str |-> s]

PyTuple(a, b) == [item0 |-> a, item1 |-> b]

PyList(s) == [list |-> s]

PyDict(f) == [dict |-> f]

(* --------------------------- check_connection --------------------------- *)

ConnectionsError ==
    Raise("ConnectionsError", Some("service unreachable"),
          Some("check config and try again"))

check_connection(self, net) ==
    LET url == policy_root(self.root_url, "")
        x   == net[1]
        rq  == Send(self, "GET", url, NoPayload, x)
    IN  IF ~rq.answered
        THEN Result(<<rq>>, ConnectionsError)
        ELSE IF ~self.secure
        THEN IF x.status = 200
             THEN Result(<<rq>>, Return(PyStr("Yes I'm here :) ")))
             ELSE Result(<<rq>>, ConnectionsError)
        ELSE IF x.status = 200
             THEN Result(<<rq>>, Return(PyStr("Yes I'm here :) ")))
             ELSE Result(<<rq>>, ConnectionsError)

(* ------------------------------ data --------------------------------- *)

__get_opa_raw_data(self, data_name, net) ==
    LET url == data_root(self.root_url, data_name)
        x   == net[1]
        rq  == Send(self, "GET", url, NoPayload, x)
    IN  IF ~rq.answered
        THEN Result(<<rq>>, TransportError(self))
        ELSE IF ~self.secure
        THEN \* response.jsons(): requests.Response has no such attribute
             Result(<<rq>>, Raise("AttributeError", Some("jsons"), None))
        ELSE IF ~Decodes(x)
        THEN Result(<<rq>>, JSONDecodeError)
        ELSE IF x.status = 200
        THEN Result(<<rq>>, Return(PyJson(json_loads(x))))
        ELSE Result(<<rq>>, Return(PyTuple(x.status, "not found")))

DataUpdatedAny2xx(code) == code \in {200, 204}

\* `True if code == 204 else False`
DataUpdated(code) == code = 204

__update_opa_data(self, new_data, endpoint, net) ==
    LET url == data_root(self.root_url, endpoint)
        x   == net[1]
        rq  == Send(self, "PUT", url, JsonPayload(new_data), x)
    IN  IF ~rq.answered
        THEN Result(<<rq>>, TransportError(self))
        ELSE IF DataUpdated(x.status)
        THEN Result(<<rq>>, Return(PyTrue))
        ELSE Result(<<rq>>, Return(PyFalse))

__delete_opa_data(self, data_name, net) ==
    LET url == data_root(self.root_url, data_name)
        x   == net[1]
        rq  == Send(self, "DELETE", url, NoPayload, x)
    IN  IF ~rq.answered
        THEN Result(<<rq>>, TransportError(self))
        ELSE IF ~self.secure
        THEN IF x.status = 204
             THEN Result(<<rq>>, Return(PyTrue))
             ELSE IF ~Decodes(x)
             THEN Result(<<rq>>, JSONDecodeError)
             ELSE Result(<<rq>>,
                         Raise("DeleteDataError",
                               get_str(json_loads(x), "code"),
                               get_str(json_loads(x), "message")))
        ELSE IF x.status = 204
        THEN Result(<<rq>>, Return(PyTrue))
        ELSE IF x.data = <<>>
        THEN \* `data` was never assigned
             Result(<<rq>>, Raise("UnboundLocalError", Some("data"), None))
        ELSE Result(<<rq>>,
                    Raise("DeleteDataError",
                          get_str(json_loads(x), "code"),
                          get_str(json_loads(x), "message")))

(* ----------------------------- policies ------------------------------ *)

PolicyUpdatedAny2xx(status) == status \in {200, 204}

\* `if response.status_code == 200` and `if response.status == 200`
PolicyUpdated(status) == status = 200

__update_opa_policy_fromstring(self, new_policy, endpoint, net) ==
    IF new_policy # ""
    THEN LET url == policy_root(self.root_url, endpoint)
             x   == net[1]
             rq  == Send(self, "PUT", url, BytesPayload(new_policy), x)
         IN  IF ~rq.answered
             THEN Result(<<rq>>, TransportError(self))
             ELSE IF ~self.secure
             THEN IF PolicyUpdated(x.status)
                  THEN Result(<<rq>>, Return(PyTrue))
                  ELSE IF ~Decodes(x)
                  THEN Result(<<rq>>, JSONDecodeError)
                  ELSE Result(<<rq>>,
                              Raise("RegoParseError",
                                    get_str(json_loads(x), "code"),
                                    get_str(json_loads(x), "message")))
             ELSE IF PolicyUpdated(x.status)
             THEN Result(<<rq>>, Return(PyTrue))
             ELSE IF ~Decodes(x)
             THEN Result(<<rq>>, JSONDecodeError)
             ELSE Result(<<rq>>,
                         Raise("RegoParseError",
                               get_str(json_loads(x), "code"),
                               get_str(json_loads(x), "message")))
    ELSE Result(<<>>, Return(PyFalse))

\* file: None when open() fails, else Some(contents)
__update_opa_policy_fromfile(self, filepath, endpoint, file, net) ==
    IF ~Falsy(filepath)
    THEN IF file = None
         THEN Result(<<>>, Raise("FileNotFoundError", filepath, None))
         ELSE __update_opa_policy_fromstring(self, file[1], endpoint, net)
    ELSE Result(<<>>, Return(PyNone))

\* response.text of the fetched page
text(x) == IF x.data = <<>> THEN "" ELSE x.data[1]

__update_opa_policy_fromurl(self, url, endpoint, net) ==
    LET x  == net[1]
        rq == PlainGet(url, x)
    IN  IF ~rq.answered
        THEN Result(<<rq>>, Raise("requests.ConnectionError", None, None))
        ELSE LET r == __update_opa_policy_fromstring(self, text(x), endpoint,
                                                     Tail(net))
             IN  Result(<<rq>> \o r.requests, r.outcome)

__get_opa_policy(self, policy_name, net) ==
    LET url == policy_root(self.root_url, policy_name)
        x   == net[1]
        rq  == Send(self, "GET", url, NoPayload, x)
    IN  IF ~rq.answered
        THEN Result(<<rq>>, TransportError(self))
        ELSE IF ~self.secure
        THEN IF x.status = 200
             THEN IF ~Decodes(x)
                  THEN Result(<<rq>>, JSONDecodeError)
                  ELSE Result(<<rq>>, Return(PyJson(json_loads(x))))
             ELSE IF ~Decodes(x)
             THEN Result(<<rq>>, JSONDecodeError)
             ELSE Result(<<rq>>,
                         Raise("PolicyNotFoundError",
                               get_str(json_loads(x), "code"),
                               get_str(json_loads(x), "message")))
        ELSE IF ~Decodes(x)
        THEN Result(<<rq>>, JSONDecodeError)
        ELSE IF x.status = 200
        THEN Result(<<rq>>, Return(PyJson(json_loads(x))))
        ELSE Result(<<rq>>,
                    Raise("PolicyNotFoundError",
                          get_str(json_loads(x), "code"),
                          get_str(json_loads(x), "message")))

PathNotFoundError ==
    Raise("PathNotFoundError", Some("error when write file"),
          Some("path not found"))

\* writable: whether open(..., "wb") and the write succeed
__opa_policy_to_file(self, policy_name, path, filename, writable, net) ==
    LET r == __get_opa_policy(self, policy_name, net)
    IN  IF r.outcome.kind = "raise"
        THEN r
        ELSE LET raw_policy == r.outcome.value.json
             IN  IF /\ "result" \in DOMAIN raw_policy
                    /\ "raw" \in DOMAIN raw_policy.result
                    /\ writable
                 THEN Result(r.requests, Return(PyTrue))
                 ELSE Result(r.requests, PathNotFoundError)

__delete_opa_policy(self, policy_name, net) ==
    LET url == policy_root(self.root_url, policy_name)
        x   == net[1]
        rq  == Send(self, "DELETE", url, NoPayload, x)
    IN  IF ~rq.answered
        THEN Result(<<rq>>, TransportError(self))
        ELSE IF ~self.secure
        THEN IF x.status = 200
             THEN Result(<<rq>>, Return(PyTrue))
             ELSE IF ~Decodes(x)
             THEN Result(<<rq>>, JSONDecodeError)
             ELSE Result(<<rq>>,
                         Raise("PolicyNotFoundError",
                               get_str(json_loads(x), "code"),
                               get_str(json_loads(x), "message")))
        ELSE IF ~Decodes(x)
        THEN Result(<<rq>>, JSONDecodeError)
        ELSE IF x.status = 200
        THEN Result(<<rq>>, Return(PyTrue))
        ELSE Result(<<rq>>,
                    Raise("PolicyNotFoundError",
                          get_str(json_loads(x), "code"),
                          get_str(json_loads(x), "message")))

(* --------------------------- policy AST walk --------------------------- *)

IsDefaultAnyRule(rule) == TRUE

\* rule.get("default") is truthy
IsDefault(rule) == "default" \in DOMAIN rule /\ rule.default

\* for path in ...get("path"): permission_url += "/" + path.get("value")
RECURSIVE AppendPath(_, _)
AppendPath(permission_url, path) ==
    IF path = <<>> THEN permission_url
    ELSE AppendPath(permission_url \o <<"/", Head(path).value>>, Tail(path))

\* `for x in None`
NotIterable == Raise("TypeError", Some("'NoneType' object is not iterable"), None)

EmptyDict == [k \in {} |-> <<>>]

\* temp_dict[key] = value
DictSet(d, key, value) ==
    [k \in DOMAIN d \cup {key} |-> IF k = key THEN value ELSE d[k]]

\* __get_policies_list: for policy in response.get("result")
RECURSIVE ListLoop(_, _)
ListLoop(result, temp) ==
    IF result = <<>> THEN temp
    ELSE LET policy == Head(result)
         IN  IF "id" \in DOMAIN policy /\ policy.id # ""
             THEN ListLoop(Tail(result), Append(temp, policy.id))
             ELSE ListLoop(Tail(result), temp)

__get_policies_list(self, net) ==
    LET url == policy_root(self.root_url, "")
        x   == net[1]
        rq  == Send(self, "GET", url, NoPayload, x)
    IN  IF ~rq.answered
        THEN Result(<<rq>>, TransportError(self))
        ELSE IF ~Decodes(x)
        THEN Result(<<rq>>, JSONDecodeError)
        ELSE IF "result" \notin DOMAIN json_loads(x)
        THEN Result(<<rq>>, NotIterable)
        ELSE Result(<<rq>>,
                    Return(PyList(ListLoop(json_loads(x).result, <<>>))))

\* __get_policies_info, the rule loop of one policy: temp_rules
RECURSIVE RulesLoop(_, _, _)
RulesLoop(rules, permission_url, temp_rules) ==
    IF rules = <<>> THEN temp_rules
    ELSE LET rule == Head(rules)
         IN  IF ~IsDefault(rule)
             THEN RulesLoop(Tail(rules), permission_url, temp_rules)
             ELSE RulesLoop(Tail(rules), permission_url,
                            Append(temp_rules,
                                   permission_url \o <<"/", rule.head.name>>))

IterationUrlCarried(root_url, carried) == carried

\* permission_url = self.__root_url at the top of every iteration; carried is
\* the value the previous iteration left
IterationUrl(root_url, carried) == root_url

\* __get_policies_info: for policy in result
RECURSIVE InfoLoop(_, _, _, _)
InfoLoop(self, result, carried, temp_dict) ==
    IF result = <<>> THEN Return(PyDict(temp_dict))
    ELSE LET policy == Head(result)
             start  == IterationUrl(self.root_url, carried)
         IN  IF "path" \notin DOMAIN policy.ast.package
             THEN NotIterable
             ELSE LET permission_url ==
                          AppendPath(start, policy.ast.package.path)
                      temp_policy == <<permission_url>>
                      temp_rules  ==
                          RulesLoop(policy.ast.rules, permission_url, <<>>)
                  IN  InfoLoop(self, Tail(result), permission_url,
                               DictSet(temp_dict, policy.id,
                                       [path  |-> temp_policy,
                                        rules |-> temp_rules]))

__get_policies_info(self, net) ==
    LET url == policy_root(self.root_url, "")
        x   == net[1]
        rq  == Send(self, "GET", url, NoPayload, x)
    IN  IF ~rq.answered
        THEN Result(<<rq>>, TransportError(self))
        ELSE IF ~Decodes(x)
        THEN Result(<<rq>>, JSONDecodeError)
        ELSE IF "result" \notin DOMAIN json_loads(x)
        THEN Result(<<rq>>, NotIterable)
        ELSE Result(<<rq>>,
                    InfoLoop(self, json_loads(x).result, self.root_url,
                             EmptyDict))

\* __check, the rule loop: acc is [permission_url, find]
RECURSIVE CheckLoop(_, _, _)
CheckLoop(rules, rule_name, acc) ==
    IF rules = <<>> THEN acc
    ELSE LET rule == Head(rules)
         IN  IF ~IsDefault(rule)
             THEN CheckLoop(Tail(rules), rule_name, acc)
             ELSE IF rule.head.name = rule_name
             THEN CheckLoop(Tail(rules), rule_name,
                            [permission_url |->
                                 acc.permission_url \o <<"/", rule.head.name>>,
                             find |-> TRUE])
             ELSE CheckLoop(Tail(rules), rule_name, acc)

CheckPermissionError(rule_name) ==
    Raise("CheckPermissionError", Some(rule_name),
          Some("policy or rule name not correct"))

\* __check from `if find:` on
CheckPost(self, input_data, rule_name, acc, rq1, net) ==
    IF acc.find
    THEN LET x  == net[2]
             rq == Send(self, "POST", acc.permission_url,
                        JsonPayload(input_data), x)
         IN  IF ~rq.answered
             THEN Result(<<rq1, rq>>, TransportError(self))
             ELSE IF ~self.secure
             THEN IF ~Decodes(x)
                  THEN Result(<<rq1, rq>>, JSONDecodeError)
                  ELSE Result(<<rq1, rq>>, Return(PyJson(json_loads(x))))
             ELSE IF x.data # <<>>
             THEN Result(<<rq1, rq>>, Return(PyJson(json_loads(x))))
             ELSE Result(<<rq1, rq>>, CheckPermissionError(rule_name))
    ELSE Result(<<rq1>>, CheckPermissionError(rule_name))

__check(self, input_data, policy_name, rule_name, net) ==
    LET url == policy_root(self.root_url, policy_name)
        x   == net[1]
        rq  == Send(self, "GET", url, NoPayload, x)
        acc0 == [permission_url |-> self.root_url, find |-> FALSE]
    IN  IF ~rq.answered
        THEN Result(<<rq>>, TransportError(self))
        ELSE IF ~Decodes(x)
        THEN Result(<<rq>>, JSONDecodeError)
        ELSE IF "result" \notin DOMAIN json_loads(x)
        THEN CheckPost(self, input_data, rule_name, acc0, rq, net)
        ELSE LET result == json_loads(x).result
             IN  IF "path" \notin DOMAIN result.ast.package
                 THEN Result(<<rq>>, NotIterable)
                 ELSE LET acc1 == [acc0 EXCEPT !.permission_url =
                                     AppendPath(@, result.ast.package.path)]
                          acc2 == CheckLoop(result.ast.rules, rule_name, acc1)
                      IN  CheckPost(self, input_data, rule_name, acc2, rq, net)

(* ------------------------- inputs of the model ------------------------- *)

Hosts == {<<"h">>, <<" ", "h">>, <<"https://", "h">>,
          <<" ", "https://", "h">>, <<"http://", "h">>}

Ports == {"8181", "443"}

Versions == {"v1"}

Certs == {None, Some(""), Some("ca.crt")}

Names == {"play"}

Segment(v) == [type |-> "string", value |-> v]

Segments == {Segment("data"), Segment("play")}

DefaultRule(n) == [default |-> TRUE, head |-> [name |-> n]]

PlainRule(n) == [head |-> [name |-> n]]

Rules == {DefaultRule("hello"), PlainRule("hello"), DefaultRule("secret")}

RuleNames == {"hello", "secret"}

\* a package object without a "path" key
PackageNoPath == [location |-> "1:1"]

Packages == {[path |-> p] : p \in SeqsUpTo(Segments, MaxPath)}
            \cup {PackageNoPath}

ASTs == [package : Packages, rules : SeqsUpTo(Rules, MaxRules)]

Policies == [id : Names, raw : {"package play"}, ast : ASTs]

ErrDoc == [code |-> "resource_not_found", message |-> "not found"]

\* a JSON object with none of the keys the client reads
BareDoc == [warning |-> "w"]

Exchanges(answers) ==
    {[fails |-> f, status |-> a.status, data |-> a.data] :
        f \in 0..MaxFail, a \in answers}

Answers(statuses, docs) ==
    [status : statuses, data : {<<>>} \cup {<<d>> : d \in docs}]

\* a policy resource: the policy, or an error or malformed answer
PolicyAnswers ==
    {[status |-> 200, data |-> <<[result |-> p]>>] : p \in Policies}
    \cup Answers({200, 404}, {ErrDoc, BareDoc})

\* the policies of a listing: ids in listing order, a few ASTs
ListingIds == <<"p", "q", "r", "s">>

ListingASTs ==
    [package : {PackageNoPath, [path |-> <<>>],
                [path |-> <<Segment("data"), Segment("play")>>]},
     rules   : {<<>>, <<DefaultRule("hello"), PlainRule("secret")>>,
                <<DefaultRule("secret"), DefaultRule("hello")>>}]

Listings ==
    UNION {{[i \in 1..k |-> [id |-> ListingIds[i], ast |-> f[i]]] :
               f \in [1..k -> ListingASTs]} : k \in 0..MaxListing}

ListAnswers ==
    {[status |-> 200, data |-> <<[result |-> l]>>] : l \in Listings}
    \cup Answers({200, 500}, {ErrDoc})

DataAnswers ==
    Answers({200, 404}, {[result |-> [users |-> "alice"]], ErrDoc})

\* answers to a PUT or DELETE
WriteAnswers == Answers({200, 204, 400, 500}, {ErrDoc, BareDoc})

EvalAnswers == Answers({200, 500}, {[result |-> [bool |-> TRUE]], BareDoc})

\* answers of the server update_opa_policy_fromurl fetches from
PageAnswers == [status : {200, 404}, data : {<<>>, <<"package play">>}]

PolicyTexts == {"", "package play"}

Inputs == {[message |-> "world"]}

(* ------------------------------ the state ------------------------------ *)

NoCall == [op |-> "none", args |-> [none |-> TRUE], net |-> <<>>,
           requests |-> <<>>, outcome |-> Return(PyNone)]

\* what the call saw of the exchanges offered to it: those of the requests it
\* issued, and of an unanswered one only the failures
Observed(net, requests) ==
    [i \in 1..Len(requests) |->
        IF requests[i].answered THEN net[i]
        ELSE [fails |-> net[i].fails, status |-> 0, data |-> <<>>]]

Call(op, args, net, r) ==
    [op |-> op, args |-> args, net |-> Observed(net, r.requests),
     requests |-> r.requests, outcome |-> r.outcome]

Idle == call.op = "none"

Init == client = NoClient /\ call = NoCall

\* client = OpaClient(host, port, version, ssl, cert)
Construct ==
    /\ Idle
    /\ \E host \in Hosts, port \in Ports, version \in Versions,
          ssl \in BOOLEAN, cert \in Certs :
          LET r == __init__(host, port, version, ssl, cert)
          IN  /\ call' = [op |-> "__init__",
                          args |-> [host |-> host, port |-> port,
                                    version |-> version, ssl |-> ssl,
                                    cert |-> cert],
                          net |-> <<>>, requests |-> <<>>,
                          outcome |-> r.outcome]
              /\ client' = IF r.outcome.kind = "return" THEN r.self
                           ELSE client

CheckConnection ==
    /\ Idle /\ client.alive
    /\ \E x \in Exchanges(Answers({200, 500}, {BareDoc})) :
          call' = Call("check_connection", [none |-> TRUE], <<x>>,
                       check_connection(client, <<x>>))
    /\ UNCHANGED client

GetPoliciesList ==
    /\ Idle /\ client.alive
    /\ \E x \in Exchanges(ListAnswers) :
          call' = Call("get_policies_list", [none |-> TRUE], <<x>>,
                       __get_policies_list(client, <<x>>))
    /\ UNCHANGED client

GetPoliciesInfo ==
    /\ Idle /\ client.alive
    /\ \E x \in Exchanges(ListAnswers) :
          call' = Call("get_policies_info", [none |-> TRUE], <<x>>,
                       __get_policies_info(client, <<x>>))
    /\ UNCHANGED client

UpdateOpaPolicyFromstring ==
    /\ Idle /\ client.alive
    /\ \E new_policy \in PolicyTexts, endpoint \in Names,
          x \in Exchanges(WriteAnswers) :
          call' = Call("update_opa_policy_fromstring",
                       [new_policy |-> new_policy, endpoint |-> endpoint],
                       <<x>>,
                       __update_opa_policy_fromstring(client, new_policy,
                                                      endpoint, <<x>>))
    /\ UNCHANGED client

UpdateOpaPolicyFromfile ==
    /\ Idle /\ client.alive
    /\ \E filepath \in {None, Some(""), Some("play.rego")},
          file \in {None} \cup {Some(t) : t \in PolicyTexts},
          endpoint \in Names, x \in Exchanges(WriteAnswers) :
          call' = Call("update_opa_policy_fromfile",
                       [filepath |-> filepath, endpoint |-> endpoint,
                        file |-> file],
                       <<x>>,
                       __update_opa_policy_fromfile(client, filepath, endpoint,
                                                    file, <<x>>))
    /\ UNCHANGED client

UpdateOpaPolicyFromurl ==
    /\ Idle /\ client.alive
    /\ \E url \in {<<"http://", "src", "/play.rego">>}, endpoint \in Names,
          x1 \in Exchanges(PageAnswers), x2 \in Exchanges(WriteAnswers) :
          call' = Call("update_opa_policy_fromurl",
                       [url |-> url, endpoint |-> endpoint], <<x1, x2>>,
                       __update_opa_policy_fromurl(client, url, endpoint,
                                                   <<x1, x2>>))
    /\ UNCHANGED client

UpdateOrCreateOpaData ==
    /\ Idle /\ client.alive
    /\ \E new_data \in Inputs, endpoint \in Names,
          x \in Exchanges(WriteAnswers) :
          call' = Call("update_or_create_opa_data",
                       [new_data |-> new_data, endpoint |-> endpoint], <<x>>,
                       __update_opa_data(client, new_data, endpoint, <<x>>))
    /\ UNCHANGED client

GetOpaRawData ==
    /\ Idle /\ client.alive
    /\ \E data_name \in Names, x \in Exchanges(DataAnswers) :
          call' = Call("get_opa_raw_data", [data_name |-> data_name], <<x>>,
                       __get_opa_raw_data(client, data_name, <<x>>))
    /\ UNCHANGED client

OpaPolicyToFile ==
    /\ Idle /\ client.alive
    /\ \E policy_name \in Names, path \in {None, Some("out")},
          writable \in BOOLEAN, x \in Exchanges(PolicyAnswers) :
          call' = Call("opa_policy_to_file",
                       [policy_name |-> policy_name, path |-> path,
                        filename |-> "opa_policy.rego",
                        writable |-> writable],
                       <<x>>,
                       __opa_policy_to_file(client, policy_name, path,
                                            "opa_policy.rego", writable,
                                            <<x>>))
    /\ UNCHANGED client

GetOpaPolicy ==
    /\ Idle /\ client.alive
    /\ \E policy_name \in Names, x \in Exchanges(PolicyAnswers) :
          call' = Call("get_opa_policy", [policy_name |-> policy_name], <<x>>,
                       __get_opa_policy(client, policy_name, <<x>>))
    /\ UNCHANGED client

DeleteOpaPolicy ==
    /\ Idle /\ client.alive
    /\ \E policy_name \in Names, x \in Exchanges(WriteAnswers) :
          call' = Call("delete_opa_policy", [policy_name |-> policy_name],
                       <<x>>, __delete_opa_policy(client, policy_name, <<x>>))
    /\ UNCHANGED client

DeleteOpaData ==
    /\ Idle /\ client.alive
    /\ \E data_name \in Names, x \in Exchanges(WriteAnswers) :
          call' = Call("delete_opa_data", [data_name |-> data_name], <<x>>,
                       __delete_opa_data(client, data_name, <<x>>))
    /\ UNCHANGED client

CheckPermission ==
    /\ Idle /\ client.alive
    /\ \E input_data \in Inputs, policy_name \in Names,
          rule_name \in RuleNames, x1 \in Exchanges(PolicyAnswers),
          x2 \in Exchanges(EvalAnswers) :
          call' = Call("check_permission",
                       [input_data |-> input_data,
                        policy_name |-> policy_name,
                        rule_name |-> rule_name],
                       <<x1, x2>>,
                       __check(client, input_data, policy_name, rule_name,
                               <<x1, x2>>))
    /\ UNCHANGED client

\* the caller has the outcome of the call; the client is ready for the next
Done ==
    /\ ~Idle
    /\ call' = NoCall
    /\ UNCHANGED client

Next ==
    \/ Construct
    \/ CheckConnection
    \/ GetPoliciesList
    \/ GetPoliciesInfo
    \/ UpdateOpaPolicyFromstring
    \/ UpdateOpaPolicyFromfile
    \/ UpdateOpaPolicyFromurl
    \/ UpdateOrCreateOpaData
    \/ GetOpaRawData
    \/ OpaPolicyToFile
    \/ GetOpaPolicy
    \/ DeleteOpaPolicy
    \/ DeleteOpaData
    \/ CheckPermission
    \/ Done

Spec == Init /\ [][Next]_vars

(* ------------------------------- claims -------------------------------- *)

IsRaise(o, e) == o.kind = "raise" /\ o.error = e

\* the service answered request i of the call
Answered(i) == Len(call.requests) >= i /\ call.requests[i].answered

RECURSIVE SumAttempts(_)
SumAttempts(rq) ==
    IF rq = <<>> THEN 0 ELSE Head(rq).attempts + SumAttempts(Tail(rq))

TotalAttempts == SumAttempts(call.requests)

\* R/s1/.../sn
Namespace(R, path) ==
    [i \in 1..(Len(R) + 2 * Len(path)) |->
        IF i <= Len(R) THEN R[i]
        ELSE IF (i - Len(R)) % 2 = 1 THEN "/"
        ELSE path[(i - Len(R)) \div 2].value]

DefaultMarked(rule) == "default" \in DOMAIN rule /\ rule.default = TRUE

HasDefaultRule(rules, name) ==
    \E i \in 1..Len(rules) : DefaultMarked(rules[i]) /\ rules[i].head.name = name

\* the configurations the claim calls contradictory
Contradictory(a) ==
    \/ a.ssl /\ a.cert \in {None, Some("")}
    \/ startswith(lstrip(a.host), "https://") /\ ~a.ssl
    \/ startswith(lstrip(a.host), "http://") /\ a.ssl

\* C1: a contradictory secure-mode configuration (ssl without a certificate,
\* an https:// host without ssl, an http:// host with ssl) makes the
\* constructor raise SSLError, and every constructed client's root URL has
\* scheme https exactly when secure mode is on.
C1_ContradictoryConfigRejected ==
    /\ call.op = "__init__" /\ Contradictory(call.args)
          => IsRaise(call.outcome, "SSLError")
    /\ client.alive => (Head(client.root_url) = "https://" <=> client.secure)

\* the policy GET of a check_permission call was answered with a JSON body
\* that holds no result, or a result whose AST has a package path
CheckGetWellFormed ==
    /\ call.op = "check_permission"
    /\ Answered(1)
    /\ call.net[1].data # <<>>
    /\ "result" \in DOMAIN call.net[1].data[1]
          => "path" \in DOMAIN call.net[1].data[1].result.ast.package

\* the AST the policy GET returned has a default rule named as requested
CheckRuleFound ==
    /\ "result" \in DOMAIN call.net[1].data[1]
    /\ HasDefaultRule(call.net[1].data[1].result.ast.rules,
                      call.args.rule_name)

C3_EndpointAppendsRuleOnce ==
    CheckGetWellFormed /\ CheckRuleFound =>
        /\ Len(call.requests) = 2
        /\ call.requests[2].method = "POST"
        /\ call.requests[2].url =
              Namespace(client.root_url,
                        call.net[1].data[1].result.ast.package.path)
              \o <<"/", call.args.rule_name>>
        /\ call.requests[2].payload = JsonPayload(call.args.input_data)

\* the policy listing a get_policies_info call was answered with
InfoListing == call.net[1].data[1].result

\* get_policies_info was answered with a JSON body holding a listing
InfoAnswered ==
    /\ call.op = "get_policies_info"
    /\ Answered(1)
    /\ call.net[1].data # <<>>
    /\ "result" \in DOMAIN call.net[1].data[1]

HasPath(policy) == "path" \in DOMAIN policy.ast.package

\* N of a listing entry: the root URL followed by "/" + each segment value,
\* and the root URL alone for an entry without a package path
EntryNamespace(policy) ==
    IF HasPath(policy)
    THEN Namespace(client.root_url, policy.ast.package.path)
    ELSE client.root_url

\* N/name for each default-marked rule, in AST order
EntryRules(policy) ==
    LET marked == SelectSeq(policy.ast.rules, DefaultMarked)
    IN  [i \in 1..Len(marked) |->
            EntryNamespace(policy) \o <<"/", marked[i].head.name>>]

\* the mapping the claim describes for the listing
InfoMapping(listing) ==
    /\ call.outcome.kind = "return"
    /\ LET d == call.outcome.value.dict
       IN  /\ DOMAIN d = {listing[i].id : i \in 1..Len(listing)}
           /\ \A i \in 1..Len(listing) :
                 /\ d[listing[i].id].path = <<EntryNamespace(listing[i])>>
                 /\ d[listing[i].id].rules = EntryRules(listing[i])

Body(i) == call.net[i].data[1]

HasBody(i) == Answered(i) /\ call.net[i].data # <<>>

\* the code and message of an error body, None when it has none
CodeOf(doc) == IF "code" \in DOMAIN doc THEN <<doc.code>> ELSE <<>>

MessageOf(doc) == IF "message" \in DOMAIN doc THEN <<doc.message>> ELSE <<>>

\* C5: get_opa_policy and get_opa_raw_data return the parsed JSON body on
\* status 200 and raise an error carrying the body's code and message on any
\* other status; they never return a value for a non-200 answer.
C5_GetReturnsOn200RaisesOtherwise ==
    call.op \in {"get_opa_policy", "get_opa_raw_data"} /\ HasBody(1) =>
        IF call.net[1].status = 200
        THEN call.outcome = Return(PyJson(Body(1)))
        ELSE /\ call.outcome.kind = "raise"
             /\ call.outcome.args = <<CodeOf(Body(1)), MessageOf(Body(1))>>

\* C6: delete_opa_policy returns True exactly on status 200 and
\* delete_opa_data exactly on 204; on every other status, whatever the body
\* (an empty one included), they raise PolicyNotFoundError and
\* DeleteDataError respectively and no other error.
C6_DeleteTrueOrKindError ==
    /\ call.op = "delete_opa_policy" /\ Answered(1) =>
          IF call.net[1].status = 200
          THEN call.outcome = Return(PyTrue)
          ELSE IsRaise(call.outcome, "PolicyNotFoundError")
    /\ call.op = "delete_opa_data" /\ Answered(1) =>
          IF call.net[1].status = 204
          THEN call.outcome = Return(PyTrue)
          ELSE IsRaise(call.outcome, "DeleteDataError")

C8_DataUpdateTrueIff204 ==
    call.op = "update_or_create_opa_data" /\ Answered(1) =>
        /\ call.requests[1].method = "PUT"
        /\ call.outcome.kind = "return"
        /\ call.outcome.value = PyTrue <=> call.net[1].status = 204
        /\ call.net[1].status # 204 => call.outcome.value = PyFalse

C8_Witness ==
    /\ call.op = "update_or_create_opa_data"
    /\ Answered(1)
    /\ call.net[1].status = 200
    /\ call.outcome = Return(PyFalse)

\* the operation op of a client, applied to arguments a and exchanges net
Run(self, op, a, net) ==
    CASE op = "check_connection" -> check_connection(self, net)
      [] op = "get_policies_list" -> __get_policies_list(self, net)
      [] op = "get_policies_info" -> __get_policies_info(self, net)
      [] op = "update_opa_policy_fromstring" ->
            __update_opa_policy_fromstring(self, a.new_policy, a.endpoint, net)
      [] op = "update_opa_policy_fromfile" ->
            __update_opa_policy_fromfile(self, a.filepath, a.endpoint, a.file,
                                         net)
      [] op = "update_opa_policy_fromurl" ->
            __update_opa_policy_fromurl(self, a.url, a.endpoint, net)
      [] op = "update_or_create_opa_data" ->
            __update_opa_data(self, a.new_data, a.endpoint, net)
      [] op = "get_opa_raw_data" -> __get_opa_raw_data(self, a.data_name, net)
      [] op = "opa_policy_to_file" ->
            __opa_policy_to_file(self, a.policy_name, a.path, a.filename,
                                 a.writable, net)
      [] op = "get_opa_policy" -> __get_opa_policy(self, a.policy_name, net)
      [] op = "delete_opa_policy" ->
            __delete_opa_policy(self, a.policy_name, net)
      [] op = "delete_opa_data" -> __delete_opa_data(self, a.data_name, net)
      [] op = "check_permission" ->
            __check(self, a.input_data, a.policy_name, a.rule_name, net)

\* the same client built in the other transport mode
OtherMode == NewClient(~client.secure, client.root_url)

Wire(rq) == [method |-> rq.method, url |-> rq.url, payload |-> rq.payload]

SameOutcome(o1, o2) ==
    /\ o1.kind = o2.kind
    /\ o1.kind = "return" => o1.value = o2.value
    /\ o1.kind = "raise" => o1.error = o2.error

\* C9: for every operation, argument and service answer (an empty body
\* included) the plain and the secure client issue the same method, URL and
\* payload and give the caller the same returned value or the same kind of
\* error.
C9_TransportModesAgree ==
    /\ call.op \notin {"none", "__init__"}
    /\ \A i \in 1..Len(call.net) : call.net[i].fails = 0
    => LET other == Run(OtherMode, call.op, call.args,
                        call.net \o <<[fails |-> 0, status |-> 0,
                                       data |-> <<>>]>>)
       IN  /\ Len(other.requests) = Len(call.requests)
           /\ \A i \in 1..Len(call.requests) :
                 Wire(other.requests[i]) = Wire(call.requests[i])
           /\ SameOutcome(other.outcome, call.outcome)

\* C10 as stated: a call that goes to the network makes exactly one request
\* attempt in plain mode and at most three in secure mode, whatever the
\* operation.
C10_OneRoundTripPerCall ==
    call.op \notin {"none", "__init__"} /\ call.requests # <<>> =>
        IF client.secure THEN TotalAttempts <= 3 ELSE TotalAttempts = 1

TwoRequestOps == {"check_permission", "update_opa_policy_fromurl"}

\* C10: a call issues at most one request, and check_permission and
\* update_opa_policy_fromurl at most two (the policy GET then the POST, the
\* fetch of the source URL then the PUT); a request through the client's
\* session is attempted exactly once in plain mode and at most three times
\* in secure mode, the fetch of the source URL once in either mode; so a
\* call makes at most 2 attempts in plain mode and at most 6 in secure mode.
C10_BoundedAttemptsPerCall ==
    call.op \notin {"none", "__init__"} =>
        /\ Len(call.requests) <= IF call.op \in TwoRequestOps THEN 2 ELSE 1
        /\ \A i \in 1..Len(call.requests) :
              /\ call.requests[i].attempts >= 1
              /\ call.requests[i].attempts <= IF client.secure THEN 3 ELSE 1
              /\ call.op = "update_opa_policy_fromurl" /\ i = 1 =>
                    call.requests[i].attempts = 1
        /\ TotalAttempts <= IF client.secure THEN 6 ELSE 2

C10_Witness ==
    /\ call.op = "check_permission"
    /\ client.secure
    /\ Len(call.requests) = 2
    /\ TotalAttempts = 6

====
